---- MODULE Spec2Model ----
(***************************************************************************)
(* Model of pxeboot_hpilo.run_module: one invocation is the sequential     *)
(* chain AnsibleModule() -> HAS_HPILO test -> hpilo.Ilo() ->                *)
(* get_host_power_status -> get_one_time_boot -> [set_one_time_boot        *)
(* (-> sleep(60) -> set_one_time_boot)] -> [press_pwr_btn] -> exit_json,   *)
(* with every exception of the try block ending in fail_json.              *)
(* The iLO is modelled by the two values the module reads and writes: the  *)
(* host power status and the one-time-boot setting.  Invocations follow    *)
(* one another on the same iLO; between two invocations another actor may  *)
(* change the iLO.                                                         *)
(***************************************************************************)
EXTENDS Integers, Sequences, FiniteSets, TLC

VARIABLES
    run,                   \* number of invocations started so far
    pc,                    \* position of the current invocation in run_module
    check_mode,            \* module.check_mode
    device,                \* module.params['device']
    params_ok,             \* the parameters pass AnsibleModule's argument_spec
    HAS_HPILO,             \* the import of hpilo succeeded
    result,                \* the result dict
    changed,               \* local variable changed
    power_status,          \* local variable power_status
    one_time_boot_status,  \* local variable one_time_boot_status
    ilo_power,             \* the iLO: host power status
    ilo_boot,              \* the iLO: one-time-boot setting
    calls,                 \* the steps of this invocation, in order, with their outcome
    slept,                 \* time slept in this invocation
    exit,                  \* "none", "exit_json" or "fail_json"
    output,                \* the keyword arguments given to exit_json / fail_json
    start,                 \* the iLO as it was when this invocation started, and whether
                           \* another actor had changed it since the previous invocation
    prev,                  \* the previous invocation, as it ended
    other                  \* another actor has changed the iLO since this invocation ended

vars == << run, pc, check_mode, device, params_ok, HAS_HPILO, result, changed,
           power_status, one_time_boot_status, ilo_power, ilo_boot, calls,
           slept, exit, output, start, prev, other >>

----------------------------------------------------------------------------
(* Bounds and value sets *)

MaxRuns == 2

SleepSeconds == 60

DeviceChoices == {"network", "normal"}

PowerValues == {"ON", "OFF", "BOOTING"}

BootValues == {"network", "normal"}

\* how a call into hpilo can end: it returns, raises hpilo.IloError (or a
\* subclass), or raises another Exception
Outcomes == {"ok", "IloError", "Exception"}

Errors == Outcomes \ {"ok"}

seed == [changed |-> FALSE, power_status |-> "UNKNOWN", one_time_boot_status |-> "UNKNOWN"]

NoOutput == [msg |-> << "none", "none", 0 >>]

NoPrev == [run |-> 0]

Call(op, res) == [op |-> op, res |-> res]

\* str(e) of the exception raised by the n-th step of the invocation
ErrMsg(op, res, n) == << op, res, n >>

----------------------------------------------------------------------------
(* Decisions of run_module *)

\* variant: the check mode test is lost
Operate_unconditional(cm) == TRUE

\* line 137: operate if not check mode
Operate(cm) == ~cm

\* variant: the setting is written on every run
NeedsChange_always(dev, otb) == TRUE

\* variant: the comparison is inverted
NeedsChange_inverted(dev, otb) == dev = otb

\* line 138: the one-time-boot setting has to be changed
NeedsChange(dev, otb) == dev # otb

\* variant: except Exception, every failure of the first attempt is retried
Retried_any(err) == TRUE

\* line 143: the except clause around the first set_one_time_boot
Retried(err) == err = "IloError"

\* variant: the server is booted unless it is known to be on
BootNeeded_unless_on(ps) == ps # "ON"

\* line 150: the server is booted
BootNeeded(ps) == ps = "OFF"

\* variant: the failure output is built from the values known so far
FailKwargs_current(m, res) ==
    [msg |-> m, changed |-> changed,
     power_status |-> IF power_status = "UNSET" THEN "UNKNOWN" ELSE power_status,
     one_time_boot_status |->
        IF one_time_boot_status = "UNSET" THEN "UNKNOWN" ELSE one_time_boot_status]

\* lines 163-164: fail_json with msg=str(e) and the result dict
FailKwargs(m, res) ==
    [msg |-> m, changed |-> res.changed, power_status |-> res.power_status,
     one_time_boot_status |-> res.one_time_boot_status]

\* variant: line 156 is lost, the changed flag is never put in the result
ExitKwargs_unchanged(ch, ps, otb) ==
    [changed |-> FALSE, power_status |-> ps, one_time_boot_status |-> otb]

\* lines 156-161: the result dict as given to exit_json
ExitKwargs(ch, ps, otb) ==
    [changed |-> ch, power_status |-> ps, one_time_boot_status |-> otb]

----------------------------------------------------------------------------
Init ==
    /\ run = 0
    /\ pc = "done"
    /\ check_mode = FALSE
    /\ device = "network"
    /\ params_ok = TRUE
    /\ HAS_HPILO = TRUE
    /\ result = seed
    /\ changed = FALSE
    /\ power_status = "UNSET"
    /\ one_time_boot_status = "UNSET"
    /\ ilo_power \in PowerValues
    /\ ilo_boot \in BootValues
    /\ calls = << >>
    /\ slept = 0
    /\ exit = "none"
    /\ output = NoOutput
    /\ start = [power |-> ilo_power, boot |-> ilo_boot, disturbed |-> FALSE]
    /\ prev = NoPrev
    /\ other = FALSE

\* the invocation that has just ended, as the next one remembers it
Ended ==
    [run |-> run, check_mode |-> check_mode, device |-> device,
     exit |-> exit, output |-> output, calls |-> calls, start |-> start]

\* lines 91-106: a new invocation; the result dict is seeded
main ==
    /\ pc = "done"
    /\ run < MaxRuns
    /\ run' = run + 1
    /\ prev' = IF run = 0 THEN NoPrev ELSE Ended
    /\ \E cm \in BOOLEAN, dev \in DeviceChoices, ok \in BOOLEAN, lib \in BOOLEAN :
          /\ check_mode' = cm
          /\ device' = dev
          /\ params_ok' = ok
          /\ HAS_HPILO' = lib
    /\ result' = seed
    /\ changed' = FALSE
    /\ power_status' = "UNSET"
    /\ one_time_boot_status' = "UNSET"
    /\ calls' = << >>
    /\ slept' = 0
    /\ exit' = "none"
    /\ output' = NoOutput
    /\ start' = [power |-> ilo_power, boot |-> ilo_boot, disturbed |-> other]
    /\ other' = FALSE
    /\ pc' = "AnsibleModule"
    /\ UNCHANGED << ilo_power, ilo_boot >>

\* the except clause of lines 163-164, for the step op that raised res
Raise(op, res) ==
    /\ calls' = Append(calls, Call(op, res))
    /\ exit' = "fail_json"
    /\ output' = FailKwargs(ErrMsg(op, res, Len(calls) + 1), result)
    /\ pc' = "done"

\* lines 108-112: AnsibleModule() validates the parameters against argument_spec
\* and fails the module by itself when they are not valid
AnsibleModule ==
    /\ pc = "AnsibleModule"
    /\ calls' = Append(calls, Call("AnsibleModule", IF params_ok THEN "ok" ELSE "invalid"))
    /\ IF params_ok
          THEN /\ pc' = "has_hpilo"
               /\ UNCHANGED << exit, output >>
          ELSE /\ pc' = "done"
               /\ exit' = "fail_json"
               /\ output' = [msg |-> << "AnsibleModule", "invalid", Len(calls) + 1 >>]
    /\ UNCHANGED << run, check_mode, device, params_ok, HAS_HPILO, result, changed,
                    power_status, one_time_boot_status, ilo_power, ilo_boot,
                    slept, start, prev, other >>

\* variant: the test of HAS_HPILO is lost
missing_required_lib_untested ==
    /\ pc = "has_hpilo"
    /\ pc' = "Ilo"
    /\ changed' = FALSE
    /\ UNCHANGED << run, check_mode, device, params_ok, HAS_HPILO, result,
                    power_status, one_time_boot_status, ilo_power, ilo_boot,
                    calls, slept, exit, output, start, prev, other >>

\* lines 114-124: the missing python requirement, then the local variables
missing_required_lib ==
    /\ pc = "has_hpilo"
    /\ IF ~HAS_HPILO
          THEN /\ pc' = "done"
               /\ exit' = "fail_json"
               /\ output' = [msg |-> << "missing_required_lib", "python-hpilo", Len(calls) + 1 >>]
               /\ calls' = Append(calls, Call("missing_required_lib", "python-hpilo"))
               /\ UNCHANGED changed
          ELSE /\ pc' = "Ilo"
               /\ changed' = FALSE
               /\ UNCHANGED << exit, output, calls >>
    /\ UNCHANGED << run, check_mode, device, params_ok, HAS_HPILO, result,
                    power_status, one_time_boot_status, ilo_power, ilo_boot,
                    slept, start, prev, other >>

\* variant: hpilo.Ilo() is called before the try block, its exception is not
\* reported through fail_json with the result
Ilo_unguarded ==
    /\ pc = "Ilo"
    /\ \E res \in Outcomes :
          /\ calls' = Append(calls, Call("Ilo", res))
          /\ IF res = "ok"
                THEN /\ pc' = "get_host_power_status"
                     /\ UNCHANGED << exit, output >>
                ELSE /\ pc' = "done"
                     /\ exit' = "fail_json"
                     /\ output' = [msg |-> << "Ilo", res, Len(calls) + 1 >>]
    /\ UNCHANGED << run, check_mode, device, params_ok, HAS_HPILO, result, changed,
                    power_status, one_time_boot_status, ilo_power, ilo_boot,
                    slept, start, prev, other >>

\* line 129: the ilo interface
Ilo ==
    /\ pc = "Ilo"
    /\ \E res \in Outcomes :
          IF res = "ok"
             THEN /\ calls' = Append(calls, Call("Ilo", "ok"))
                  /\ pc' = "get_host_power_status"
                  /\ UNCHANGED << exit, output >>
             ELSE Raise("Ilo", res)
    /\ UNCHANGED << run, check_mode, device, params_ok, HAS_HPILO, result, changed,
                    power_status, one_time_boot_status, ilo_power, ilo_boot,
                    slept, start, prev, other >>

\* line 132: get power status
get_host_power_status ==
    /\ pc = "get_host_power_status"
    /\ \E res \in Outcomes :
          IF res = "ok"
             THEN /\ calls' = Append(calls, Call("get_host_power_status", "ok"))
                  /\ power_status' = ilo_power
                  /\ pc' = "get_one_time_boot"
                  /\ UNCHANGED << exit, output >>
             ELSE /\ Raise("get_host_power_status", res)
                  /\ UNCHANGED power_status
    /\ UNCHANGED << run, check_mode, device, params_ok, HAS_HPILO, result, changed,
                    one_time_boot_status, ilo_power, ilo_boot, slept, start, prev, other >>

\* lines 134-138: get one time boot status, then the two tests that decide
\* whether set_one_time_boot is called
get_one_time_boot ==
    /\ pc = "get_one_time_boot"
    /\ \E res \in Outcomes :
          IF res = "ok"
             THEN /\ calls' = Append(calls, Call("get_one_time_boot", "ok"))
                  /\ one_time_boot_status' = ilo_boot
                  /\ pc' = IF ~Operate(check_mode) THEN "exit_json"
                           ELSE IF NeedsChange(device, ilo_boot) THEN "set_one_time_boot"
                           ELSE "if_changed"
                  /\ UNCHANGED << exit, output >>
             ELSE /\ Raise("get_one_time_boot", res)
                  /\ UNCHANGED one_time_boot_status
    /\ UNCHANGED << run, check_mode, device, params_ok, HAS_HPILO, result, changed,
                    power_status, ilo_power, ilo_boot, slept, start, prev, other >>

\* lines 140-143: try boot once
set_one_time_boot ==
    /\ pc = "set_one_time_boot"
    /\ \E res \in Outcomes :
          IF res = "ok"
             THEN /\ calls' = Append(calls, Call("set_one_time_boot", "ok"))
                  /\ ilo_boot' = device
                  /\ changed' = TRUE
                  /\ pc' = "if_changed"
                  /\ UNCHANGED << exit, output >>
             ELSE IF Retried(res)
             THEN /\ calls' = Append(calls, Call("set_one_time_boot", res))
                  /\ pc' = "sleep"
                  /\ UNCHANGED << ilo_boot, changed, exit, output >>
             ELSE /\ Raise("set_one_time_boot", res)
                  /\ UNCHANGED << ilo_boot, changed >>
    /\ UNCHANGED << run, check_mode, device, params_ok, HAS_HPILO, result,
                    power_status, one_time_boot_status, ilo_power, slept, start,
                    prev, other >>

\* line 144: time.sleep(60)
sleep ==
    /\ pc = "sleep"
    /\ calls' = Append(calls, Call("sleep", "ok"))
    /\ slept' = slept + SleepSeconds
    /\ pc' = "set_one_time_boot_again"
    /\ UNCHANGED << run, check_mode, device, params_ok, HAS_HPILO, result, changed,
                    power_status, one_time_boot_status, ilo_power, ilo_boot,
                    exit, output, start, prev, other >>

\* variant: line 146 is lost, the retry does not record the change
set_one_time_boot_again_unrecorded ==
    /\ pc = "set_one_time_boot_again"
    /\ \E res \in Outcomes :
          IF res = "ok"
             THEN /\ calls' = Append(calls, Call("set_one_time_boot", "ok"))
                  /\ ilo_boot' = device
                  /\ pc' = "if_changed"
                  /\ UNCHANGED << changed, exit, output >>
             ELSE /\ Raise("set_one_time_boot", res)
                  /\ UNCHANGED << ilo_boot, changed >>
    /\ UNCHANGED << run, check_mode, device, params_ok, HAS_HPILO, result,
                    power_status, one_time_boot_status, ilo_power, slept, start,
                    prev, other >>

\* variant: the retry is a loop, a transient failure of the retry is retried too
set_one_time_boot_again_looping ==
    /\ pc = "set_one_time_boot_again"
    /\ \E res \in Outcomes :
          IF res = "ok"
             THEN /\ calls' = Append(calls, Call("set_one_time_boot", "ok"))
                  /\ ilo_boot' = device
                  /\ changed' = TRUE
                  /\ pc' = "if_changed"
                  /\ UNCHANGED << exit, output >>
             ELSE IF Retried(res)
             THEN /\ calls' = Append(calls, Call("set_one_time_boot", res))
                  /\ pc' = "sleep"
                  /\ UNCHANGED << ilo_boot, changed, exit, output >>
             ELSE /\ Raise("set_one_time_boot", res)
                  /\ UNCHANGED << ilo_boot, changed >>
    /\ UNCHANGED << run, check_mode, device, params_ok, HAS_HPILO, result,
                    power_status, one_time_boot_status, ilo_power, slept, start,
                    prev, other >>

\* lines 145-146: the second set_one_time_boot, in the except clause
set_one_time_boot_again ==
    /\ pc = "set_one_time_boot_again"
    /\ \E res \in Outcomes :
          IF res = "ok"
             THEN /\ calls' = Append(calls, Call("set_one_time_boot", "ok"))
                  /\ ilo_boot' = device
                  /\ changed' = TRUE
                  /\ pc' = "if_changed"
                  /\ UNCHANGED << exit, output >>
             ELSE /\ Raise("set_one_time_boot", res)
                  /\ UNCHANGED << ilo_boot, changed >>
    /\ UNCHANGED << run, check_mode, device, params_ok, HAS_HPILO, result,
                    power_status, one_time_boot_status, ilo_power, slept, start,
                    prev, other >>

\* variant: line 149 is lost, the one time boot status is not updated
if_changed_stale ==
    /\ pc = "if_changed"
    /\ pc' = IF changed /\ BootNeeded(power_status) THEN "press_pwr_btn" ELSE "exit_json"
    /\ UNCHANGED << run, check_mode, device, params_ok, HAS_HPILO, result, changed,
                    power_status, one_time_boot_status, ilo_power, ilo_boot, calls,
                    slept, exit, output, start, prev, other >>

\* lines 147-150: if changed, set one time boot status and see whether to boot
if_changed ==
    /\ pc = "if_changed"
    /\ IF changed
          THEN /\ one_time_boot_status' = device
               /\ pc' = IF BootNeeded(power_status) THEN "press_pwr_btn" ELSE "exit_json"
          ELSE /\ pc' = "exit_json"
               /\ UNCHANGED one_time_boot_status
    /\ UNCHANGED << run, check_mode, device, params_ok, HAS_HPILO, result, changed,
                    power_status, ilo_power, ilo_boot, calls, slept, exit, output,
                    start, prev, other >>

\* variant: after the power-on the iLO is queried again instead of BOOTING
\* being assigned locally
press_pwr_btn_requery ==
    /\ pc = "press_pwr_btn"
    /\ \E res \in Outcomes :
          IF res = "ok"
             THEN /\ calls' = Append(calls, Call("press_pwr_btn", "ok"))
                  /\ ilo_power' = "ON"
                  /\ pc' = "get_host_power_status"
                  /\ UNCHANGED << exit, output >>
             ELSE /\ Raise("press_pwr_btn", res)
                  /\ UNCHANGED << ilo_power >>
    /\ UNCHANGED << run, check_mode, device, params_ok, HAS_HPILO, result, changed,
                    power_status, one_time_boot_status, ilo_boot, slept, start,
                    prev, other >>

\* variant: the failure of the power-on is caught and ignored
press_pwr_btn_swallowed ==
    /\ pc = "press_pwr_btn"
    /\ \E res \in Outcomes :
          /\ calls' = Append(calls, Call("press_pwr_btn", res))
          /\ IF res = "ok"
                THEN /\ ilo_power' = "ON"
                     /\ power_status' = "BOOTING"
                ELSE UNCHANGED << ilo_power, power_status >>
          /\ pc' = "exit_json"
    /\ UNCHANGED << run, check_mode, device, params_ok, HAS_HPILO, result, changed,
                    one_time_boot_status, ilo_boot, slept, exit, output, start,
                    prev, other >>

\* variant: line 154 is lost, the power status is not set to BOOTING
press_pwr_btn_unmarked ==
    /\ pc = "press_pwr_btn"
    /\ \E res \in Outcomes :
          IF res = "ok"
             THEN /\ calls' = Append(calls, Call("press_pwr_btn", "ok"))
                  /\ ilo_power' = "ON"
                  /\ pc' = "exit_json"
                  /\ UNCHANGED << exit, output >>
             ELSE /\ Raise("press_pwr_btn", res)
                  /\ UNCHANGED << ilo_power >>
    /\ UNCHANGED << run, check_mode, device, params_ok, HAS_HPILO, result, changed,
                    power_status, one_time_boot_status, ilo_boot, slept, start,
                    prev, other >>

\* lines 151-154: boot, set power status
press_pwr_btn ==
    /\ pc = "press_pwr_btn"
    /\ \E res \in Outcomes :
          IF res = "ok"
             THEN /\ calls' = Append(calls, Call("press_pwr_btn", "ok"))
                  /\ ilo_power' = "ON"
                  /\ power_status' = "BOOTING"
                  /\ pc' = "exit_json"
                  /\ UNCHANGED << exit, output >>
             ELSE /\ Raise("press_pwr_btn", res)
                  /\ UNCHANGED << ilo_power, power_status >>
    /\ UNCHANGED << run, check_mode, device, params_ok, HAS_HPILO, result, changed,
                    one_time_boot_status, ilo_boot, slept, start, prev, other >>

\* lines 156-161: the result dict is filled in and returned
exit_json ==
    /\ pc = "exit_json"
    /\ result' = ExitKwargs(changed, power_status, one_time_boot_status)
    /\ output' = result'
    /\ exit' = "exit_json"
    /\ pc' = "done"
    /\ UNCHANGED << run, check_mode, device, params_ok, HAS_HPILO, changed,
                    power_status, one_time_boot_status, ilo_power, ilo_boot,
                    calls, slept, start, prev, other >>

\* between two invocations another actor changes the iLO (spec, section 5)
OtherActor ==
    /\ pc = "done"
    /\ run >= 1
    /\ run < MaxRuns
    /\ ~other
    /\ \E p \in PowerValues, b \in BootValues :
          /\ << p, b >> # << ilo_power, ilo_boot >>
          /\ ilo_power' = p
          /\ ilo_boot' = b
    /\ other' = TRUE
    /\ UNCHANGED << run, pc, check_mode, device, params_ok, HAS_HPILO, result,
                    changed, power_status, one_time_boot_status, calls, slept,
                    exit, output, start, prev >>

Next ==
    \/ main
    \/ AnsibleModule
    \/ missing_required_lib
    \/ Ilo
    \/ get_host_power_status
    \/ get_one_time_boot
    \/ set_one_time_boot
    \/ sleep
    \/ set_one_time_boot_again
    \/ if_changed
    \/ press_pwr_btn
    \/ exit_json
    \/ OtherActor

Spec == Init /\ [][Next]_vars

\* the steps of a running invocation
Step ==
    \/ AnsibleModule
    \/ missing_required_lib
    \/ Ilo
    \/ get_host_power_status
    \/ get_one_time_boot
    \/ set_one_time_boot
    \/ sleep
    \/ set_one_time_boot_again
    \/ if_changed
    \/ press_pwr_btn
    \/ exit_json

\* run_module is sequential code: a started invocation goes on as long as
\* every call returns or raises
LiveSpec == Init /\ [][Next]_vars /\ WF_vars(Step)

\* the values the variables of run_module take
TypeOK ==
    /\ run \in 0..MaxRuns
    /\ pc \in {"done", "AnsibleModule", "has_hpilo", "Ilo", "get_host_power_status",
               "get_one_time_boot", "set_one_time_boot", "sleep",
               "set_one_time_boot_again", "if_changed", "press_pwr_btn", "exit_json"}
    /\ check_mode \in BOOLEAN
    /\ device \in DeviceChoices
    /\ params_ok \in BOOLEAN
    /\ HAS_HPILO \in BOOLEAN
    /\ result \in [changed : BOOLEAN, power_status : PowerValues \cup {"UNKNOWN"},
                   one_time_boot_status : BootValues \cup {"UNKNOWN"}]
    /\ changed \in BOOLEAN
    /\ power_status \in PowerValues \cup {"UNSET"}
    /\ one_time_boot_status \in BootValues \cup {"UNSET"}
    /\ ilo_power \in PowerValues
    /\ ilo_boot \in BootValues
    /\ slept \in {0, SleepSeconds}
    /\ exit \in {"none", "exit_json", "fail_json"}
    /\ (exit = "none") = (pc # "done" \/ run = 0)
    /\ start \in [power : PowerValues, boot : BootValues, disturbed : BOOLEAN]
    /\ other \in BOOLEAN

----------------------------------------------------------------------------
(* Vocabulary of the properties *)

\* the invocation has reported its outcome
Reported == exit # "none"

Called(op) == \E i \in 1..Len(calls) : calls[i].op = op

ReturnedOk(op) == \E i \in 1..Len(calls) : calls[i] = Call(op, "ok")

CountOf(op) == Cardinality({i \in 1..Len(calls) : calls[i].op = op})

\* the positions of the set_one_time_boot calls, in order
SetCalls == {i \in 1..Len(calls) : calls[i].op = "set_one_time_boot"}

FirstSet == CHOOSE i \in SetCalls : \A j \in SetCalls : i <= j

LastCall == calls[Len(calls)]

\* a mutating call (set_one_time_boot or press_pwr_btn) returned in this invocation
Mutated == ReturnedOk("set_one_time_boot") \/ ReturnedOk("press_pwr_btn")

\* the changed flag as the caller reads it (absent means false)
ReportedChanged == "changed" \in DOMAIN output /\ output.changed

\* a returned result with these three values
ResultIs(ch, ps, otb) ==
    /\ DOMAIN output = {"changed", "power_status", "one_time_boot_status"}
    /\ output.changed = ch
    /\ output.power_status = ps
    /\ output.one_time_boot_status = otb

\* both queries of this invocation returned: what they returned is what the
\* iLO held when the invocation started
Observed == ReturnedOk("get_host_power_status") /\ ReturnedOk("get_one_time_boot")

----------------------------------------------------------------------------
(* C1 *)

\* C1: in check mode no invocation ever calls set_one_time_boot or
\* press_pwr_btn, whatever the desired mode and the state of the iLO; its
\* reported changed flag is false, and the result it returns holds the power
\* status and the one-time-boot mode read from the iLO, also when the desired
\* mode differs from the current one.
C1_DryRunNeverMutates ==
    check_mode =>
        /\ ~Called("set_one_time_boot")
        /\ ~Called("press_pwr_btn")
        /\ ~Called("sleep")
        /\ Reported => ~ReportedChanged
        /\ exit = "exit_json" =>
              ResultIs(FALSE, start.power, start.boot)

C1_Witness ==
    /\ check_mode
    /\ exit = "exit_json"
    /\ device # start.boot
    /\ start.power = "OFF"

----------------------------------------------------------------------------
(* C2 *)

\* C2: in every reported outcome, success or failure, the reported changed
\* flag is true if and only if a mutating call (set_one_time_boot or
\* press_pwr_btn) returned successfully during the invocation.
C2_ChangedIffMutated ==
    Reported => (ReportedChanged <=> Mutated)

----------------------------------------------------------------------------
(* C3 *)

\* C3: when set_one_time_boot has succeeded and press_pwr_btn then fails, the
\* invocation fails, its failure output carries changed=true and
\* one_time_boot_status equal to the desired mode, and the iLO keeps the new
\* one-time-boot mode.
C3_PowerOnFailureKeepsChange ==
    (Reported /\ ReturnedOk("set_one_time_boot")
        /\ LastCall.op = "press_pwr_btn" /\ LastCall.res \in Errors) =>
        /\ exit = "fail_json"
        /\ output.changed = TRUE
        /\ output.one_time_boot_status = device
        /\ (~other => ilo_boot = device)

----------------------------------------------------------------------------
(* C4 *)

\* C4: a failure output keeps every query result obtained before the failure:
\* power_status is the value read when get_host_power_status returned, and
\* one_time_boot_status is known when get_one_time_boot returned; the output
\* is all-UNKNOWN only when no query returned.
C4_FailureKeepsQueryResults ==
    (exit = "fail_json" /\ "power_status" \in DOMAIN output) =>
        /\ ReturnedOk("get_host_power_status") => output.power_status = start.power
        /\ ReturnedOk("get_one_time_boot") =>
              output.one_time_boot_status \in {start.boot, device}
        /\ (output.power_status = "UNKNOWN" /\ output.one_time_boot_status = "UNKNOWN")
              => ~ReturnedOk("get_host_power_status")

----------------------------------------------------------------------------
(* C5 *)

FirstSetTransient == SetCalls # {} /\ calls[FirstSet].res = "IloError"

\* the position of the second set_one_time_boot call, 0 when there is none
SecondSet == IF Cardinality(SetCalls) = 2 THEN CHOOSE i \in SetCalls : i # FirstSet ELSE 0

RetryOk == SecondSet # 0 /\ calls[SecondSet].res = "ok"

RetryFailed == SecondSet # 0 /\ calls[SecondSet].res \in Errors

PowerOnFailed == LastCall.op = "press_pwr_btn" /\ LastCall.res \in Errors

----------------------------------------------------------------------------
(* C6 *)

----------------------------------------------------------------------------
(* C7 *)

----------------------------------------------------------------------------
(* C8 *)

\* C8: every invocation outside check mode that reads power status OFF and
\* ends successfully has called press_pwr_btn, also when the one-time-boot
\* mode of the iLO already was the desired one.
C8_BootsWhenOff ==
    (exit = "exit_json" /\ ~check_mode /\ start.power = "OFF") =>
        Called("press_pwr_btn")

----------------------------------------------------------------------------
(* C9 *)

\* two successive invocations outside check mode with the same desired mode,
\* the first of which returned a result, and no other actor in between
TwoRuns ==
    /\ Reported
    /\ prev.run >= 1
    /\ ~check_mode
    /\ ~prev.check_mode
    /\ prev.device = device
    /\ prev.exit = "exit_json"
    /\ ~start.disturbed

\* C9: of two successive invocations outside check mode with the same desired
\* mode and no other actor changing the iLO in between, the first returns
\* changed=true exactly when the one-time-boot mode of the iLO differed from
\* the desired one, and the second reports changed=false and calls neither
\* set_one_time_boot nor press_pwr_btn, also when the first one powered the
\* server on.
C9_Idempotent ==
    TwoRuns =>
        /\ prev.output.changed <=> (prev.start.boot # device)
        /\ ~ReportedChanged
        /\ ~Called("set_one_time_boot")
        /\ ~Called("press_pwr_btn")

C9_Witness ==
    /\ TwoRuns
    /\ prev.output.changed
    /\ prev.output.power_status = "BOOTING"
    /\ exit = "exit_json"

----------------------------------------------------------------------------
(* C10 *)

----------------------------------------------------------------------------
(* C11 *)

FirstSetOk == SetCalls # {} /\ calls[FirstSet].res = "ok"

\* C11: outside check mode, when the desired mode differs from the one read
\* and the first set_one_time_boot succeeds, there is no second attempt,
\* press_pwr_btn is called if and only if the power status read was OFF, and
\* the result returned has changed=true, one_time_boot_status equal to the
\* desired mode, and power_status BOOTING when OFF was read and the value read
\* otherwise.
C11_FirstAttemptSuccess ==
    (~check_mode /\ device # start.boot /\ FirstSetOk) =>
        /\ CountOf("set_one_time_boot") = 1
        /\ ~Called("sleep")
        /\ Reported => (Called("press_pwr_btn") <=> start.power = "OFF")
        /\ exit = "exit_json" =>
              ResultIs(TRUE,
                       IF start.power = "OFF" THEN "BOOTING" ELSE start.power,
                       device)

C11_Witness ==
    /\ ~check_mode
    /\ device # start.boot
    /\ FirstSetOk
    /\ start.power = "OFF"
    /\ exit = "exit_json"
----------------------------------------------------------------------------
(* C12 *)

\* a call that contacts the iLO, or the cooldown
DeviceOps == {"Ilo", "get_host_power_status", "get_one_time_boot",
              "set_one_time_boot", "press_pwr_btn", "sleep"}

NoDeviceContact == \A i \in 1..Len(calls) : calls[i].op \notin DeviceOps

\* C12 as stated: without the hpilo library the invocation fails with the
\* missing-library error, and no parameter validation, no session and no
\* device call happens in that run.
C12_MissingLibFirst_AsStated ==
    (Reported /\ ~HAS_HPILO) =>
        /\ exit = "fail_json"
        /\ output.msg[1] = "missing_required_lib"
        /\ ~Called("AnsibleModule")
        /\ NoDeviceContact

\* C12, amended: without the hpilo library no session is opened and no device
\* call is made, and the invocation fails; the parameters are validated
\* first: when they are valid the failure is the missing-library error,
\* raised right after the validation, and when they are not the failure is
\* the validation error.
C12_MissingLibBeforeContact ==
    (run >= 1 /\ ~HAS_HPILO) =>
        /\ NoDeviceContact
        /\ pc \in {"AnsibleModule", "has_hpilo", "done"}
        /\ Reported =>
              /\ exit = "fail_json"
              /\ DOMAIN output = {"msg"}
              /\ IF params_ok
                    THEN /\ calls = << Call("AnsibleModule", "ok"),
                                       Call("missing_required_lib", "python-hpilo") >>
                         /\ output.msg[1] = "missing_required_lib"
                    ELSE /\ calls = << Call("AnsibleModule", "invalid") >>
                         /\ output.msg[1] = "AnsibleModule"

C12_Witness ==
    /\ Reported
    /\ ~HAS_HPILO
    /\ params_ok
    /\ output.msg[1] = "missing_required_lib"

----------------------------------------------------------------------------
(* C13 *)

SessionFailed == \E i \in 1..Len(calls) : calls[i].op = "Ilo" /\ calls[i].res \in Errors

\* C13: when hpilo.Ilo() fails, the invocation fails at once with
\* changed=false and both statuses UNKNOWN, and no query, set_one_time_boot,
\* cooldown or press_pwr_btn follows.
C13_SessionFailure ==
    SessionFailed =>
        /\ pc = "done"
        /\ exit = "fail_json"
        /\ LastCall.op = "Ilo"
        /\ Len(calls) = 2
        /\ slept = 0
        /\ output.msg = << "Ilo", LastCall.res, 2 >>
        /\ DOMAIN output = {"msg", "changed", "power_status", "one_time_boot_status"}
        /\ output.changed = FALSE
        /\ output.power_status = "UNKNOWN"
        /\ output.one_time_boot_status = "UNKNOWN"
        /\ (~other => (ilo_power = start.power /\ ilo_boot = start.boot))

C13_Witness ==
    /\ SessionFailed
    /\ ~check_mode
    /\ device # start.boot
----------------------------------------------------------------------------
(* C14 *)

SleepCalls == {i \in 1..Len(calls) : calls[i].op = "sleep"}

\* C14: set_one_time_boot is called at most twice in an invocation; the
\* cooldown of 60 happens at most once, right after a failed first attempt and
\* right before the second one; and when the second attempt fails the
\* invocation ends there, with the message of the second failure.
C14_AtMostOneRetry ==
    /\ CountOf("set_one_time_boot") <= 2
    /\ Cardinality(SleepCalls) <= 1
    /\ slept = SleepSeconds * Cardinality(SleepCalls)
    /\ \A k \in SleepCalls :
          /\ k - 1 = FirstSet
          /\ calls[k - 1].res \in Errors
          /\ \A i \in SetCalls : i = k - 1 \/ i = k + 1
          /\ pc = "set_one_time_boot_again" \/ SecondSet = k + 1
    /\ SecondSet # 0 => SecondSet - 1 \in SleepCalls
    /\ RetryFailed =>
          /\ pc = "done"
          /\ exit = "fail_json"
          /\ Len(calls) = SecondSet
          /\ output.msg = << "set_one_time_boot", calls[SecondSet].res, SecondSet >>
          /\ output.msg # << "set_one_time_boot", calls[FirstSet].res, FirstSet >>

C14_Witness ==
    /\ RetryFailed
    /\ calls[SecondSet].res = "Exception"

----------------------------------------------------------------------------
(* C15 *)

Positions(op) == {i \in 1..Len(calls) : calls[i].op = op}

\* some call of op returned before position i
OkBefore(op, i) == \E j \in 1..(i - 1) : calls[j] = Call(op, "ok")

\* C15: in every invocation hpilo.Ilo() comes before the power query, the
\* power query before the one-time-boot query, both queries have returned
\* before any set_one_time_boot, and a set_one_time_boot has returned before
\* press_pwr_btn; each query is made at most once, so none follows a
\* set_one_time_boot or the press_pwr_btn; the new mode and BOOTING are
\* assigned locally.
C15_CallOrder ==
    /\ CountOf("Ilo") <= 1
    /\ CountOf("get_host_power_status") <= 1
    /\ CountOf("get_one_time_boot") <= 1
    /\ CountOf("press_pwr_btn") <= 1
    /\ \A i \in Positions("get_host_power_status") : OkBefore("Ilo", i)
    /\ \A i \in Positions("get_one_time_boot") : OkBefore("get_host_power_status", i)
    /\ \A i \in Positions("set_one_time_boot") :
          /\ OkBefore("get_host_power_status", i)
          /\ OkBefore("get_one_time_boot", i)
          /\ \A j \in Positions("get_host_power_status") \cup Positions("get_one_time_boot") :
                j < i
    /\ \A i \in Positions("press_pwr_btn") :
          /\ OkBefore("set_one_time_boot", i)
          /\ i = Len(calls)
    /\ (exit = "exit_json" /\ ReturnedOk("press_pwr_btn")) =>
          (output.power_status = "BOOTING" /\ output.one_time_boot_status = device)

C15_Witness ==
    /\ exit = "exit_json"
    /\ ReturnedOk("press_pwr_btn")
    /\ CountOf("set_one_time_boot") = 2
----------------------------------------------------------------------------
(* C16 *)

\* the steps that ended in an error, but for the transient failure of the
\* first set_one_time_boot, which is retried
FatalErrors ==
    {i \in 1..Len(calls) :
        /\ calls[i].res # "ok"
        /\ ~(calls[i].op = "set_one_time_boot" /\ i = FirstSet /\ calls[i].res = "IloError")}

OneOutcome ==
    /\ (pc = "done" /\ run >= 1) => exit \in {"exit_json", "fail_json"}
    /\ pc # "done" => exit = "none"
    /\ \A i \in FatalErrors :
          /\ pc = "done"
          /\ exit = "fail_json"
          /\ i = Len(calls)
          /\ output.msg = << calls[i].op, calls[i].res, i >>
    /\ exit = "exit_json" => FatalErrors = {}
    /\ exit = "fail_json" => FatalErrors # {}

----------------------------------------------------------------------------
(* C17 *)

\* C17: the result dict keeps its seed values until exit_json, so whenever an
\* invocation fails in hpilo.Ilo(), a query, the first or the second
\* set_one_time_boot or press_pwr_btn, the failure output is the message with
\* exactly changed=false, power_status=UNKNOWN, one_time_boot_status=UNKNOWN,
\* also when the invocation has changed the one-time-boot mode of the iLO.
C17_FailureOutputIsSeed ==
    /\ exit # "exit_json" =>
          /\ result.changed = FALSE
          /\ result.power_status = "UNKNOWN"
          /\ result.one_time_boot_status = "UNKNOWN"
    /\ (exit = "fail_json" /\ Called("Ilo")) =>
          /\ DOMAIN output = {"msg", "changed", "power_status", "one_time_boot_status"}
          /\ output.changed = FALSE
          /\ output.power_status = "UNKNOWN"
          /\ output.one_time_boot_status = "UNKNOWN"

C17_Witness ==
    /\ exit = "fail_json"
    /\ ReturnedOk("set_one_time_boot")
    /\ start.boot # device
    /\ ilo_boot = device
    /\ ~other
    /\ output.changed = FALSE

----------------------------------------------------------------------------
(* C18 *)

\* C18: every invocation outside check mode that succeeds returns
\* one_time_boot_status equal to the desired mode, changed or not, and, on an
\* iLO that stores the mode of a successful set_one_time_boot and that no
\* other actor has touched since, this is the one-time-boot mode the iLO holds
\* when the invocation ends.
C18_ReportsDesiredMode ==
    (exit = "exit_json" /\ ~check_mode) =>
        /\ output.one_time_boot_status = device
        /\ ~other => ilo_boot = output.one_time_boot_status
        /\ output.changed <=> (start.boot # device)

C18_Witness ==
    /\ exit = "exit_json"
    /\ ~check_mode
    /\ output.changed
    /\ start.boot = "network"
    /\ ilo_boot = "normal"

----------------------------------------------------------------------------
(* C19 *)

\* C19: on an iLO that reports power status ON or OFF only, a returned result
\* has power_status=BOOTING if and only if press_pwr_btn was called and
\* returned in the invocation, which implies changed=true and a power status
\* of OFF read before; every other returned result has the power status read
\* from the iLO, never UNKNOWN.
C19_BootingIffPoweredOn ==
    (exit = "exit_json" /\ start.power \in {"ON", "OFF"}) =>
        /\ output.power_status = "BOOTING" <=> ReturnedOk("press_pwr_btn")
        /\ ReturnedOk("press_pwr_btn") => (output.changed /\ start.power = "OFF")
        /\ ~ReturnedOk("press_pwr_btn") => output.power_status = start.power
        /\ output.power_status # "UNKNOWN"

C19_Witness ==
    /\ exit = "exit_json"
    /\ start.power = "OFF"
    /\ output.power_status = "BOOTING"
    /\ ilo_power = "ON"

====
